---- MODULE Spec2Model ----
(***************************************************************************)
(* Replication-lag monitor (src/src/lag-monitor.py).                       *)
(*                                                                         *)
(* One thread of control runs ReplicationTester.run_tests: for every       *)
(* configured index it waits for the document threshold, then runs         *)
(* test_index, whose trials (run_single_test) write a document and poll    *)
(* for it with wait_for_document, first with the primary preference and    *)
(* then with the replica preference.  The store (count / index / get) is   *)
(* the environment: each call either answers or raises.                   *)
(***************************************************************************)
EXTENDS Integers, Sequences, FiniteSets, TLC

(* ---- bounds of the model ---- *)
MaxIterations == 2   \* largest --iterations value drawn in Init
MaxClock      == 1   \* the clock stops advancing at this reading
MaxTimeouts   == 2   \* the store raises at most this many timeouts in a run
MaxCount      == 10  \* largest document count the store reports
MaxPolls      == 3   \* the store reports the threshold reached by this query
MaxSizeKb     == 2   \* largest --min-doc-size-kb value drawn in DocInit
MaxSample     == 5   \* longest result list drawn in ReportInit
MaxLines      == 5   \* longest shard listing drawn in SkewInit

(* ---- program constants and configuration ---- *)
AttemptFactor == 3                  \* "iteration > self.config.iterations * 3"
MsPerSecond   == 1000               \* "(time.time() - start_time) * 1000"
Indexes       == <<"idx1", "idx2">> \* config.indexes, in input order
IndexSet      == {Indexes[k] : k \in 1..Len(Indexes)}
doc_threshold == MaxCount - 1       \* config.doc_threshold
BytesPerKb    == 1024               \* "min_size_kb * 1024"
PaddingBuffer == 100                \* "... - current_size + 100"

None    == <<>>
Some(v) == <<v>>
Val(o)  == o[1]

VARIABLES
  pc,                    \* position of the single thread of control
  idx,                   \* run_tests: position of `index` in config.indexes
  iterations,            \* config.iterations
  successful_iterations, \* test_index local
  iteration,             \* test_index local
  now,                   \* reading of time.time(), in seconds
  start_time,            \* wait_for_document local
  is_primary,            \* wait_for_document argument
  res,                   \* wait_for_document local
  outcome,               \* outcome of the latest client.get of this poll
  primary_time,          \* run_single_test local
  replica_time,          \* run_single_test local
  result,                \* value returned by run_single_test
  timeouts,              \* self.timeouts: index -> {"primary", "replica"} -> count
  results,               \* self.results: index -> list of result dicts
  csv,                   \* rows of <index>_results.csv; <<>> = no such file
  seen,                  \* history: timeouts the store raised, per index and preference
  wrote,                 \* history: the write of the current trial succeeded
  pFound,                \* history: a primary read of the current trial returned found
  rFound,                \* history: a replica read of the current trial returned found
  count,                 \* wait_for_threshold local
  queries,               \* history: get_doc_count calls of the current wait
  sleeps,                \* history: time.sleep calls of the current wait
  reached,               \* history: indexes whose wait_for_threshold returned True
  skipped,               \* history: indexes for which "Skipping tests" was logged
  report_calls,          \* history: calls of generate_report
  raised,                \* the call whose exception reached main, or "none"
  warned,                \* history: this test_index logged "Stopping after ..."
  report,                \* value returned by generate_report
  min_size_bytes,        \* DocumentGenerator.min_size_bytes
  current_size,          \* generate_document local
  final_size,            \* generate_document local
  args,                  \* the namespace returned by parser.parse_args()
  parsed,                \* urllib.parse.urlparse(args.url)
  config,                \* attributes of the Config object under construction
  http_auth,             \* http_auth passed to OpenSearch(...)
  lines,                 \* check_skew: sys.stdin.readlines(), each line split
  processed_data,        \* check_skew: first value of parse_shard_data
  unassigned_shards,     \* check_skew: second value of parse_shard_data
  node_summary,          \* check_skew: first value of analyze_shards
  index_summary,         \* check_skew: second value of analyze_shards
  index_distribution     \* check_skew: value of analyze_index_distribution

waitVars == <<count, queries, sleeps>>
runVars  == <<reached, skipped, report_calls, raised, report, warned>>
docVars  == <<min_size_bytes, current_size, final_size>>
cfgVars  == <<args, parsed, config, http_auth>>
skewVars == <<lines, processed_data, unassigned_shards, node_summary,
              index_summary, index_distribution>>

vars == <<pc, idx, iterations, successful_iterations, iteration, now, start_time,
          is_primary, res, outcome, primary_time, replica_time, result,
          timeouts, results, csv, seen, wrote, pFound, rFound,
          waitVars, runVars, docVars, cfgVars, skewVars>>

index == Indexes[idx]

ZeroCounters == [primary |-> 0, replica |-> 0]

(* node_type = 'primary' if is_primary else 'replica' *)
NodeTypeAlwaysPrimary(p) == "primary"
NodeType(p) == IF p THEN "primary" ELSE "replica"

(* 'timeout' in str(e).lower() *)
ExcMessages == {"timeout", "error"}
IsTimeout(e) == e = "timeout"

(* self.timeouts[index][node_type] += 1 *)
BumpTimeoutForgot(t, i, n) == t
BumpTimeout(t, i, n) == [t EXCEPT ![i][n] = @ + 1]

(* (time.time() - start_time) * 1000 *)
Elapsed(t, start) == (t - start) * MsPerSecond

(* The dict returned by run_single_test.  'timeouts' holds the dict object *)
(* self.timeouts[index] itself, so the field is the reference to it.       *)
MakeResultRaw(i, pt, rt) ==
  [indexing_time_ms |-> pt, replication_time_ms |-> rt, timeouts |-> i]
MakeResult(i, pt, rt) ==
  [indexing_time_ms |-> pt, replication_time_ms |-> rt - pt, timeouts |-> i]

(* The value read through the 'timeouts' field of a result dict. *)
TimeoutsOf(r) == timeouts[r.timeouts]

(* csv.DictWriter.writerow(result): one row per call.  Of its cells the   *)
(* two latency columns are kept.                                          *)
CsvRow(r) ==
  [indexing_time_ms |-> r.indexing_time_ms,
   replication_time_ms |-> r.replication_time_ms]

(* TestResultsHandler.save_result *)
SaveResultAlwaysHeader(file, r) ==
  IF r = None THEN file
  ELSE file \o <<"header">> \o <<CsvRow(Val(r))>>
SaveResult(file, r) ==
  IF r = None THEN file
  ELSE LET file_exists == file # <<>>
           hdr == IF file_exists THEN <<>> ELSE <<"header">>
       IN  file \o hdr \o <<CsvRow(Val(r))>>

(* Number of timeouts the store has raised so far in the run. *)
RECURSIVE SumOver(_, _)
SumOver(f, S) ==
  IF S = {} THEN 0
  ELSE LET i == CHOOSE j \in S : TRUE
       IN  f[i].primary + f[i].replica + SumOver(f, S \ {i})
TimeoutsRaised == SumOver(seen, IndexSet)

(* Clock advance while a store call is in progress. *)
Ticks == {0} \cup (IF now < MaxClock THEN {1} ELSE {})

(* Config.from_args and check_skew.main are not in progress. *)
NoConfig ==
  /\ args = None
  /\ parsed = None
  /\ config = None
  /\ http_auth = None
NoSkew ==
  /\ lines = <<>>
  /\ processed_data = <<>>
  /\ unassigned_shards = <<>>
  /\ node_summary = <<>>
  /\ index_summary = <<>>
  /\ index_distribution = <<>>

Init ==
  /\ pc = "rt_wait"
  /\ idx = 1
  /\ iterations \in 1..MaxIterations
  /\ successful_iterations = 0
  /\ iteration = 0
  /\ now = 0
  /\ start_time = 0
  /\ is_primary = TRUE
  /\ res = FALSE
  /\ outcome = "none"
  /\ primary_time = None
  /\ replica_time = None
  /\ result = None
  /\ timeouts = [i \in IndexSet |-> ZeroCounters]
  /\ results = [i \in IndexSet |-> <<>>]
  /\ csv = [i \in IndexSet |-> <<>>]
  /\ seen = [i \in IndexSet |-> ZeroCounters]
  /\ wrote = FALSE
  /\ pFound = FALSE
  /\ rFound = FALSE
  /\ count = None
  /\ queries = 0
  /\ sleeps = 0
  /\ reached = {}
  /\ skipped = {}
  /\ report_calls = 0
  /\ raised = "none"
  /\ warned = FALSE
  /\ report = None
  /\ min_size_bytes = 0
  /\ current_size = 0
  /\ final_size = None
  /\ NoConfig
  /\ NoSkew

(* ---- IndexMonitor.wait_for_threshold, called from run_tests ---- *)

(* get_doc_count returned c. *)
CountQuery(c) ==
  /\ pc = "rt_wait"
  /\ c < doc_threshold => queries + 1 < MaxPolls
  /\ count' = Some(c)
  /\ queries' = queries + 1
  /\ pc' = "wft_check"
  /\ UNCHANGED <<idx, iterations, successful_iterations, iteration, now,
                 start_time, is_primary, res, outcome, primary_time,
                 replica_time, result, timeouts, results, csv, seen, wrote,
                 pFound, rFound, sleeps, runVars, docVars>>
  /\ UNCHANGED <<cfgVars, skewVars>>

(* get_doc_count raised: the error is logged and the wait sleeps. *)
CountErrorNoSleep ==
  /\ pc = "rt_wait"
  /\ queries + 1 < MaxPolls
  /\ queries' = queries + 1
  /\ pc' = "rt_wait"
  /\ UNCHANGED <<idx, iterations, successful_iterations, iteration, now,
                 start_time, is_primary, res, outcome, primary_time,
                 replica_time, result, timeouts, results, csv, seen, wrote,
                 pFound, rFound, count, sleeps, runVars, docVars>>
  /\ UNCHANGED <<cfgVars, skewVars>>
CountError ==
  /\ pc = "rt_wait"
  /\ queries + 1 < MaxPolls
  /\ queries' = queries + 1
  /\ pc' = "wft_sleep"
  /\ UNCHANGED <<idx, iterations, successful_iterations, iteration, now,
                 start_time, is_primary, res, outcome, primary_time,
                 replica_time, result, timeouts, results, csv, seen, wrote,
                 pFound, rFound, count, sleeps, runVars, docVars>>
  /\ UNCHANGED <<cfgVars, skewVars>>

(* The value wait_for_threshold returns once count >= doc_threshold. *)
WaitReturnStrict(c) == c > doc_threshold
WaitReturn(c) == TRUE

(* "if count >= self.config.doc_threshold": return, or sleep.  On the     *)
(* return run_tests enters test_index when the value is true and logs the *)
(* skip otherwise; either way the wait and its locals are over.           *)
ThresholdCheck ==
  /\ pc = "wft_check"
  /\ count' = None
  /\ IF Val(count) >= doc_threshold
       THEN /\ queries' = 0
            /\ sleeps' = 0
            /\ IF WaitReturn(Val(count))
                 THEN /\ pc' = "ti_loop"
                      /\ reached' = reached \cup {index}
                      /\ skipped' = skipped
                 ELSE /\ pc' = "ti_end"
                      /\ reached' = reached
                      /\ skipped' = skipped \cup {index}
            /\ successful_iterations' = 0
            /\ iteration' = 0
            /\ warned' = FALSE
       ELSE /\ pc' = "wft_sleep"
            /\ UNCHANGED <<queries, sleeps, reached, skipped,
                           successful_iterations, iteration, warned>>
  /\ UNCHANGED <<idx, iterations, now, start_time, is_primary, res, outcome,
                 primary_time, replica_time, result, timeouts, results, csv,
                 seen, wrote, pFound, rFound, report_calls, raised, report,
                 docVars>>
  /\ UNCHANGED <<cfgVars, skewVars>>

(* time.sleep(poll_interval), then the next round of `while True`. *)
Sleep ==
  /\ pc = "wft_sleep"
  /\ pc' = "rt_wait"
  /\ sleeps' = sleeps + 1
  /\ UNCHANGED <<idx, iterations, successful_iterations, iteration, now,
                 start_time, is_primary, res, outcome, primary_time,
                 replica_time, result, timeouts, results, csv, seen, wrote,
                 pFound, rFound, count, queries, runVars, docVars>>
  /\ UNCHANGED <<cfgVars, skewVars>>

(* ---- ReplicationTester.test_index ---- *)

(* Loop test true: run_single_test is called; it generates the document   *)
(* and issues client.index.                                               *)
RunSingleTestResets ==
  /\ pc = "ti_loop"
  /\ successful_iterations < iterations
  /\ pc' = "rst_write"
  /\ primary_time' = None
  /\ replica_time' = None
  /\ result' = None
  /\ outcome' = "none"
  /\ wrote' = FALSE
  /\ pFound' = FALSE
  /\ rFound' = FALSE
  /\ timeouts' = [timeouts EXCEPT ![index] = ZeroCounters]
  /\ UNCHANGED <<idx, iterations, successful_iterations, iteration, now,
                 start_time, is_primary, res, results, csv, seen>>
  /\ UNCHANGED <<waitVars, runVars, docVars>>
  /\ UNCHANGED <<cfgVars, skewVars>>
RunSingleTest ==
  /\ pc = "ti_loop"
  /\ successful_iterations < iterations
  /\ pc' = "rst_write"
  /\ primary_time' = None
  /\ replica_time' = None
  /\ result' = None
  /\ outcome' = "none"
  /\ wrote' = FALSE
  /\ pFound' = FALSE
  /\ rFound' = FALSE
  /\ UNCHANGED <<idx, iterations, successful_iterations, iteration, now,
                 start_time, is_primary, res, timeouts, results, csv, seen>>
  /\ UNCHANGED <<waitVars, runVars, docVars>>
  /\ UNCHANGED <<cfgVars, skewVars>>

(* Loop test false: the loop ends and the closing line is logged. *)
LoopExit ==
  /\ pc = "ti_loop"
  /\ ~(successful_iterations < iterations)
  /\ pc' = "ti_end"
  /\ UNCHANGED <<idx, iterations, successful_iterations, iteration, now,
                 start_time, is_primary, res, outcome, primary_time,
                 replica_time, result, timeouts, results, csv, seen, wrote,
                 pFound, rFound>>
  /\ UNCHANGED <<waitVars, runVars, docVars>>
  /\ UNCHANGED <<cfgVars, skewVars>>

(* After "iteration += 1": break when the count exceeds the allowance. *)
AfterAttempt(n) ==
  IF n > iterations * AttemptFactor THEN "ti_end" ELSE "ti_loop"

(* The branch that breaks first logs the warning "Stopping after ...". *)
Warns(n) == n > iterations * AttemptFactor

(* The frames of run_single_test and wait_for_document are gone and       *)
(* `result` is rebound by the next call: their locals hold nothing.       *)
TrialOver ==
  /\ start_time' = 0
  /\ is_primary' = TRUE
  /\ res' = FALSE
  /\ outcome' = "none"
  /\ primary_time' = None
  /\ replica_time' = None
  /\ result' = None
  /\ wrote' = FALSE
  /\ pFound' = FALSE
  /\ rFound' = FALSE

(* run_single_test returned a dict: append, save, count, next attempt. *)
RecordResultForgetsCount ==
  /\ pc = "ti_result"
  /\ result # None
  /\ results' = [results EXCEPT ![index] = Append(@, Val(result))]
  /\ csv' = [csv EXCEPT ![index] = SaveResult(@, result)]
  /\ iteration' = iteration + 1
  /\ pc' = AfterAttempt(iteration + 1)
  /\ warned' = Warns(iteration + 1)
  /\ TrialOver
  /\ UNCHANGED <<idx, iterations, successful_iterations, now, timeouts, seen>>
  /\ UNCHANGED <<waitVars, reached, skipped, report_calls, raised, report,
                 docVars>>
  /\ UNCHANGED <<cfgVars, skewVars>>
RecordResult ==
  /\ pc = "ti_result"
  /\ result # None
  /\ results' = [results EXCEPT ![index] = Append(@, Val(result))]
  /\ csv' = [csv EXCEPT ![index] = SaveResult(@, result)]
  /\ successful_iterations' = successful_iterations + 1
  /\ iteration' = iteration + 1
  /\ pc' = AfterAttempt(iteration + 1)
  /\ warned' = Warns(iteration + 1)
  /\ TrialOver
  /\ UNCHANGED <<idx, iterations, now, timeouts, seen>>
  /\ UNCHANGED <<waitVars, reached, skipped, report_calls, raised, report,
                 docVars>>
  /\ UNCHANGED <<cfgVars, skewVars>>

(* run_single_test returned a dict that is appended, and save_result      *)
(* raises when it opens the file: nothing in test_index, run_tests or     *)
(* save_result catches it, so it reaches the handler of main, which logs  *)
(* "Test failed" and exits with status 1.                                 *)
SaveFails ==
  /\ pc = "ti_result"
  /\ result # None
  /\ results' = [results EXCEPT ![index] = Append(@, Val(result))]
  /\ raised' = "save_result"
  /\ pc' = "failed"
  /\ TrialOver
  /\ UNCHANGED <<idx, iterations, successful_iterations, iteration, now,
                 timeouts, csv, seen, waitVars, reached, skipped,
                 report_calls, report, warned, docVars>>
  /\ UNCHANGED <<cfgVars, skewVars>>

(* run_single_test returned None: only the attempt is counted. *)
DiscardResultSkipsCount ==
  /\ pc = "ti_result"
  /\ result = None
  /\ pc' = AfterAttempt(iteration)
  /\ warned' = Warns(iteration)
  /\ TrialOver
  /\ UNCHANGED <<idx, iterations, successful_iterations, iteration, now,
                 timeouts, results, csv, seen>>
  /\ UNCHANGED <<waitVars, reached, skipped, report_calls, raised, report,
                 docVars>>
  /\ UNCHANGED <<cfgVars, skewVars>>
DiscardResult ==
  /\ pc = "ti_result"
  /\ result = None
  /\ iteration' = iteration + 1
  /\ pc' = AfterAttempt(iteration + 1)
  /\ warned' = Warns(iteration + 1)
  /\ TrialOver
  /\ UNCHANGED <<idx, iterations, successful_iterations, now, timeouts,
                 results, csv, seen>>
  /\ UNCHANGED <<waitVars, reached, skipped, report_calls, raised, report,
                 docVars>>
  /\ UNCHANGED <<cfgVars, skewVars>>

(* ---- ReplicationTester.run_single_test / wait_for_document ---- *)

(* Entry of wait_for_document(index, test_id, is_primary=p). *)
EnterWait(p) ==
  /\ start_time' = now'
  /\ is_primary' = p
  /\ res' = FALSE
  /\ pc' = "wfd_loop"

(* client.index returned: wait for the document on the primary. *)
WriteOkReplicaFirst ==
  /\ pc = "rst_write"
  /\ wrote' = TRUE
  /\ now' = now
  /\ EnterWait(FALSE)
  /\ UNCHANGED <<idx, iterations, successful_iterations, iteration, outcome,
                 primary_time, replica_time, result, timeouts, results, csv,
                 seen, pFound, rFound>>
  /\ UNCHANGED <<waitVars, runVars, docVars>>
  /\ UNCHANGED <<cfgVars, skewVars>>
WriteOk ==
  /\ pc = "rst_write"
  /\ wrote' = TRUE
  /\ now' = now
  /\ EnterWait(TRUE)
  /\ UNCHANGED <<idx, iterations, successful_iterations, iteration, outcome,
                 primary_time, replica_time, result, timeouts, results, csv,
                 seen, pFound, rFound>>
  /\ UNCHANGED <<waitVars, runVars, docVars>>
  /\ UNCHANGED <<cfgVars, skewVars>>

(* client.index raised: logged, run_single_test returns None. *)
WriteFailFallThrough ==
  /\ pc = "rst_write"
  /\ now' = now
  /\ EnterWait(TRUE)
  /\ UNCHANGED <<idx, iterations, successful_iterations, iteration, outcome,
                 primary_time, replica_time, result, timeouts, results, csv,
                 seen, wrote, pFound, rFound>>
  /\ UNCHANGED <<waitVars, runVars, docVars>>
  /\ UNCHANGED <<cfgVars, skewVars>>
WriteFail ==
  /\ pc = "rst_write"
  /\ result' = None
  /\ pc' = "ti_result"
  /\ UNCHANGED <<idx, iterations, successful_iterations, iteration, now,
                 start_time, is_primary, res, outcome, primary_time,
                 replica_time, timeouts, results, csv, seen, wrote, pFound,
                 rFound>>
  /\ UNCHANGED <<waitVars, runVars, docVars>>
  /\ UNCHANGED <<cfgVars, skewVars>>

(* What run_single_test does with the value `t` that wait_for_document    *)
(* returned for preference `p`; `r` is the value `res` had at the return.  *)
WaitReturns(p, t, r) ==
  IF p
    THEN /\ primary_time' = t
         /\ replica_time' = replica_time
         /\ IF t = None
              THEN /\ result' = None
                   /\ pc' = "ti_result"
                   /\ res' = r
                   /\ UNCHANGED <<start_time, is_primary>>
              ELSE /\ result' = result
                   /\ EnterWait(FALSE)
    ELSE /\ primary_time' = primary_time
         /\ replica_time' = t
         /\ result' = IF t = None THEN None
                      ELSE Some(MakeResult(index, Val(primary_time), Val(t)))
         /\ pc' = "ti_result"
         /\ res' = r
         /\ UNCHANGED <<start_time, is_primary>>

(* "while not res": issue client.get, or leave the loop and return None. *)
PollLoop ==
  /\ pc = "wfd_loop"
  /\ now' = now
  /\ IF ~res
       THEN /\ pc' = "wfd_get"
            /\ UNCHANGED <<start_time, is_primary, res, primary_time,
                           replica_time, result>>
       ELSE WaitReturns(is_primary, None, res)
  /\ UNCHANGED <<idx, iterations, successful_iterations, iteration, outcome,
                 timeouts, results, csv, seen, wrote, pFound, rFound>>
  /\ UNCHANGED <<waitVars, runVars, docVars>>
  /\ UNCHANGED <<cfgVars, skewVars>>

(* client.get answered with response['found'] = found after d seconds. *)
GetResponse(found, d) ==
  /\ pc = "wfd_get"
  /\ now' = now + d
  /\ IF found
       THEN /\ pFound' = (pFound \/ is_primary)
            /\ rFound' = (rFound \/ ~is_primary)
            /\ outcome' = "found"
            /\ WaitReturns(is_primary, Some(Elapsed(now', start_time)), TRUE)
       ELSE /\ res' = FALSE
            /\ outcome' = "notfound"
            /\ pc' = "wfd_loop"
            /\ UNCHANGED <<start_time, is_primary, primary_time, replica_time,
                           result, pFound, rFound>>
  /\ UNCHANGED <<idx, iterations, successful_iterations, iteration, timeouts,
                 results, csv, seen, wrote>>
  /\ UNCHANGED <<waitVars, runVars, docVars>>
  /\ UNCHANGED <<cfgVars, skewVars>>

(* client.get raised an exception with message class e after d seconds. *)
GetRaisesGivesUp(e, d) ==
  /\ pc = "wfd_get"
  /\ IsTimeout(e) => TimeoutsRaised < MaxTimeouts
  /\ now' = now + d
  /\ outcome' = e
  /\ WaitReturns(is_primary, None, FALSE)
  /\ timeouts' = IF IsTimeout(e)
                   THEN BumpTimeout(timeouts, index, NodeType(is_primary))
                   ELSE timeouts
  /\ seen' = IF IsTimeout(e)
               THEN [seen EXCEPT ![index][IF is_primary THEN "primary" ELSE "replica"] = @ + 1]
               ELSE seen
  /\ UNCHANGED <<idx, iterations, successful_iterations, iteration,
                 results, csv, wrote, pFound, rFound>>
  /\ UNCHANGED <<waitVars, runVars, docVars>>
  /\ UNCHANGED <<cfgVars, skewVars>>
GetRaises(e, d) ==
  /\ pc = "wfd_get"
  /\ IsTimeout(e) => TimeoutsRaised < MaxTimeouts
  /\ now' = now + d
  /\ outcome' = e
  /\ pc' = "wfd_loop"
  /\ timeouts' = IF IsTimeout(e)
                   THEN BumpTimeout(timeouts, index, NodeType(is_primary))
                   ELSE timeouts
  /\ seen' = IF IsTimeout(e)
               THEN [seen EXCEPT ![index][IF is_primary THEN "primary" ELSE "replica"] = @ + 1]
               ELSE seen
  /\ UNCHANGED <<idx, iterations, successful_iterations, iteration,
                 start_time, is_primary, res, primary_time, replica_time,
                 result, results, csv, wrote, pFound, rFound>>
  /\ UNCHANGED <<waitVars, runVars, docVars>>
  /\ UNCHANGED <<cfgVars, skewVars>>

(* ---- ReplicationTester.run_tests ---- *)

(* df[column] of the DataFrame built from a result list. *)
Column(rs, f) == [j \in 1..Len(rs) |-> rs[j][f]]

(* Series.quantile(q) with the default linear interpolation, q given in   *)
(* percent and the value in hundredths: position q * (n - 1) in the       *)
(* sorted sample, interpolated between its two neighbours.                *)
QuantileLower(xs, q) ==
  LET srt == SortSeq(xs, LAMBDA a, b : a < b)
      h   == q * (Len(xs) - 1)
  IN  srt[(h \div 100) + 1] * 100
Quantile(xs, q) ==
  LET srt == SortSeq(xs, LAMBDA a, b : a < b)
      h   == q * (Len(xs) - 1)
      lo  == (h \div 100) + 1
      fr  == h % 100
  IN  IF fr = 0 THEN srt[lo] * 100
      ELSE srt[lo] * 100 + (srt[lo + 1] - srt[lo]) * fr

Percentiles(xs) ==
  [p50 |-> Quantile(xs, 50), p90 |-> Quantile(xs, 90), p99 |-> Quantile(xs, 99)]

(* len(df.dropna()): the rows without a missing value, i.e. the dicts    *)
(* that have every column of the frame (the values are never None).       *)
ResultColumns == {"indexing_time_ms", "replication_time_ms", "timeouts"}
SuccessfulTestsPositive(rs) ==
  Cardinality({j \in 1..Len(rs) : rs[j].replication_time_ms > 0})
SuccessfulTests(rs) ==
  Cardinality({j \in 1..Len(rs) : ResultColumns \subseteq DOMAIN rs[j]})

(* report[index] of generate_report. *)
ReportEntry(rs) ==
  [total_tests |-> Len(rs),
   successful_tests |-> SuccessfulTests(rs),
   indexing_time_ms |-> Percentiles(Column(rs, "indexing_time_ms")),
   replication_time_ms |-> Percentiles(Column(rs, "replication_time_ms"))]

(* The DataFrame of an empty list has no column: df['indexing_time_ms']   *)
(* raises KeyError.                                                       *)
ReportRaises(rs) == \E i \in IndexSet : rs[i] = <<>>

(* test_index returned (its locals are gone) and another index follows. *)
NextIndexReturnsEarly ==
  /\ pc = "ti_end"
  /\ idx < Len(Indexes)
  /\ pc' = "done"
  /\ report_calls' = report_calls + 1
  /\ successful_iterations' = 0
  /\ iteration' = 0
  /\ warned' = FALSE
  /\ UNCHANGED <<idx, iterations, now,
                 start_time, is_primary, res, outcome, primary_time,
                 replica_time, result, timeouts, results, csv, seen, wrote,
                 pFound, rFound>>
  /\ UNCHANGED <<waitVars, reached, skipped, raised, report, docVars>>
  /\ UNCHANGED <<cfgVars, skewVars>>
NextIndex ==
  /\ pc = "ti_end"
  /\ idx < Len(Indexes)
  /\ idx' = idx + 1
  /\ pc' = "rt_wait"
  /\ successful_iterations' = 0
  /\ iteration' = 0
  /\ warned' = FALSE
  /\ UNCHANGED <<iterations, now,
                 start_time, is_primary, res, outcome, primary_time,
                 replica_time, result, timeouts, results, csv, seen, wrote,
                 pFound, rFound>>
  /\ UNCHANGED <<waitVars, reached, skipped, report_calls, raised, report,
                 docVars>>
  /\ UNCHANGED <<cfgVars, skewVars>>

(* test_index returned for the last index: generate_report is called.  It *)
(* returns the report, or its exception reaches the handler of main.      *)
GenerateReport ==
  /\ pc = "ti_end"
  /\ idx = Len(Indexes)
  /\ report_calls' = report_calls + 1
  /\ IF ReportRaises(results)
       THEN /\ pc' = "failed"
            /\ raised' = "generate_report"
            /\ report' = None
       ELSE /\ pc' = "done"
            /\ raised' = raised
            /\ report' = Some([i \in IndexSet |-> ReportEntry(results[i])])
  /\ successful_iterations' = 0
  /\ iteration' = 0
  /\ warned' = FALSE
  /\ UNCHANGED <<idx, iterations, now,
                 start_time, is_primary, res, outcome, primary_time,
                 replica_time, result, timeouts, results, csv, seen, wrote,
                 pFound, rFound>>
  /\ UNCHANGED <<waitVars, reached, skipped, docVars>>
  /\ UNCHANGED <<cfgVars, skewVars>>

Next ==
  \/ \E c \in 0..MaxCount : CountQuery(c)
  \/ CountError
  \/ ThresholdCheck
  \/ Sleep
  \/ RunSingleTest
  \/ LoopExit
  \/ RecordResult
  \/ SaveFails
  \/ DiscardResult
  \/ WriteOk
  \/ WriteFail
  \/ PollLoop
  \/ \E found \in BOOLEAN, d \in Ticks : GetResponse(found, d)
  \/ \E e \in ExcMessages, d \in Ticks : GetRaises(e, d)
  \/ NextIndex
  \/ GenerateReport

Spec == Init /\ [][Next]_vars

(* The process keeps running: some step is taken whenever one is possible. *)
(* Nothing is assumed about the answers of the store.                      *)
FairSpec == Spec /\ WF_vars(Next)

(* ---- TestResultsHandler.generate_report on given result lists ---- *)

SampleValues == {10, 20, 30, 40, 50}
SampleSeqs   == UNION {[1..n -> SampleValues] : n \in 0..MaxSample}

(* Result dicts with the indexing latencies xs; the replication latencies *)
(* are the same values mirrored, so the two columns are ordered oppositely.*)
ToResults(xs, i) ==
  [j \in 1..Len(xs) |-> MakeResult(i, xs[j], 60)]

(* The results file after saving rs one by one. *)
RECURSIVE FileOf(_)
FileOf(rs) ==
  IF rs = <<>> THEN <<>>
  ELSE SaveResult(FileOf(SubSeq(rs, 1, Len(rs) - 1)), Some(rs[Len(rs)]))

(* run_tests just before generate_report: every index has been tested,   *)
(* the first one with any list of results, the others with one result.    *)
ReportInit ==
  /\ pc = "ti_end"
  /\ idx = Len(Indexes)
  /\ iterations = MaxSample
  /\ results \in {[i \in IndexSet |->
                     IF i = Indexes[1] THEN ToResults(xs, i)
                     ELSE ToResults(<<10>>, i)] : xs \in SampleSeqs}
  /\ csv = [i \in IndexSet |-> FileOf(results[i])]
  /\ successful_iterations = Len(results[index])
  /\ iteration = iterations * AttemptFactor + 1
  /\ now = 0
  /\ start_time = 0
  /\ is_primary = TRUE
  /\ res = FALSE
  /\ outcome = "none"
  /\ primary_time = None
  /\ replica_time = None
  /\ result = None
  /\ timeouts = [i \in IndexSet |-> ZeroCounters]
  /\ seen = [i \in IndexSet |-> ZeroCounters]
  /\ wrote = FALSE
  /\ pFound = FALSE
  /\ rFound = FALSE
  /\ count = None
  /\ queries = 0
  /\ sleeps = 0
  /\ reached = IndexSet
  /\ skipped = {}
  /\ report_calls = 0
  /\ raised = "none"
  /\ warned = Warns(iteration)
  /\ report = None
  /\ min_size_bytes = 0
  /\ current_size = 0
  /\ final_size = None
  /\ NoConfig
  /\ NoSkew

ReportNext == GenerateReport

ReportSpec == ReportInit /\ [][ReportNext]_vars

(* ---- DocumentGenerator.generate_document ---- *)

(* Serialized size of the random document before padding. *)
BaseSizes == {200, 600}

(* len(json.dumps(doc).encode('utf-8')) once 'description' holds a text   *)
(* of n characters of which nl (line breaks) are written as two bytes.    *)
JsonSize(base, n, nl) == base + n + nl

(* faker.text(max_nb_chars=m) returns a text of at most m characters. *)
TextLengths(m) == 0..m

DocInit ==
  /\ pc = "gen_doc"
  /\ min_size_bytes \in {kb * BytesPerKb : kb \in 0..MaxSizeKb}
  /\ current_size \in BaseSizes
  /\ final_size = None
  /\ idx = 1
  /\ iterations = 1
  /\ successful_iterations = 0
  /\ iteration = 0
  /\ now = 0
  /\ start_time = 0
  /\ is_primary = TRUE
  /\ res = FALSE
  /\ outcome = "none"
  /\ primary_time = None
  /\ replica_time = None
  /\ result = None
  /\ timeouts = [i \in IndexSet |-> ZeroCounters]
  /\ results = [i \in IndexSet |-> <<>>]
  /\ csv = [i \in IndexSet |-> <<>>]
  /\ seen = [i \in IndexSet |-> ZeroCounters]
  /\ wrote = FALSE
  /\ pFound = FALSE
  /\ rFound = FALSE
  /\ count = None
  /\ queries = 0
  /\ sleeps = 0
  /\ reached = {}
  /\ skipped = {}
  /\ report_calls = 0
  /\ raised = "none"
  /\ warned = FALSE
  /\ report = None
  /\ NoConfig
  /\ NoSkew

(* generate_document: the description is padded when the document is      *)
(* smaller than the minimum; n and nl describe the text faker returns.    *)
GenerateDocument(n, nl) ==
  /\ pc = "gen_doc"
  /\ IF current_size < min_size_bytes
       THEN LET padding_size == min_size_bytes - current_size + PaddingBuffer
            IN  /\ n \in TextLengths(padding_size)
                /\ nl <= n
                /\ final_size' = Some(JsonSize(current_size, n, nl))
       ELSE /\ n = 0
            /\ nl = 0
            /\ final_size' = Some(current_size)
  /\ pc' = "doc_done"
  /\ UNCHANGED <<idx, iterations, successful_iterations, iteration, now,
                 start_time, is_primary, res, outcome, primary_time,
                 replica_time, result, timeouts, results, csv, seen, wrote,
                 pFound, rFound, waitVars, runVars, min_size_bytes,
                 current_size>>
  /\ UNCHANGED <<cfgVars, skewVars>>

DocNext ==
  \E n \in 0..(MaxSizeKb * BytesPerKb + PaddingBuffer), nl \in 0..1 :
    GenerateDocument(n, nl)

DocSpec == DocInit /\ [][DocNext]_vars

(* ---- Config.from_args and Config.create_opensearch_client ---- *)

(* Truth value of an optional string: None and '' are false. *)
Truthy(o) == o # None /\ Val(o) # ""

(* choices=['none', 'basic', 'aws'] of --auth-type *)
AuthTypes == {"none", "basic", "aws"}

(* Values of the user-info part of the URL: absent, empty, or given. *)
UrlValues(v) == {None, Some(""), Some(v)}

(* Values of an optional string argument: absent (the default None),      *)
(* empty, or given.                                                       *)
ArgValues(v) == {None, Some(""), Some(v)}

(* The namespaces parse_args can return for the connection arguments. *)
ArgSpace ==
  [auth_type : AuthTypes,
   username : ArgValues("arg_user"), password : ArgValues("arg_pass"),
   region : {None, Some("region")}, access_key : {None, Some("ak")},
   secret_key : {None, Some("sk")}]

(* The results of urlparse(args.url) as far as Config reads them. *)
UrlSpace ==
  [hostname : {None, Some("host")},
   username : UrlValues("url_user"), password : UrlValues("url_pass")]

(* Config.__init__ has been entered and no attribute is set yet. *)
ConfigInit ==
  /\ pc = "cfg_parse"
  /\ args \in ArgSpace
  /\ parsed \in UrlSpace
  /\ config = [host |-> None, auth_type |-> "unset", username |-> None,
               password |-> None, region |-> None, access_key |-> None,
               secret_key |-> None]
  /\ http_auth = None
  /\ idx = 1
  /\ iterations = 1
  /\ successful_iterations = 0
  /\ iteration = 0
  /\ now = 0
  /\ start_time = 0
  /\ is_primary = TRUE
  /\ res = FALSE
  /\ outcome = "none"
  /\ primary_time = None
  /\ replica_time = None
  /\ result = None
  /\ timeouts = [i \in IndexSet |-> ZeroCounters]
  /\ results = [i \in IndexSet |-> <<>>]
  /\ csv = [i \in IndexSet |-> <<>>]
  /\ seen = [i \in IndexSet |-> ZeroCounters]
  /\ wrote = FALSE
  /\ pFound = FALSE
  /\ rFound = FALSE
  /\ count = None
  /\ queries = 0
  /\ sleeps = 0
  /\ reached = {}
  /\ skipped = {}
  /\ report_calls = 0
  /\ raised = "none"
  /\ warned = FALSE
  /\ report = None
  /\ min_size_bytes = 0
  /\ current_size = 0
  /\ final_size = None
  /\ NoSkew

mainVars == <<idx, iterations, successful_iterations, iteration, now,
              start_time, is_primary, res, outcome, primary_time, replica_time,
              result, timeouts, results, csv, seen, wrote, pFound, rFound,
              waitVars, reached, skipped, report_calls, report, warned,
              docVars>>

(* Config._parse_url: host, and the credentials of the URL when both are  *)
(* non-empty.                                                             *)
ParseUrl ==
  /\ pc = "cfg_parse"
  /\ config' = IF Truthy(parsed.username) /\ Truthy(parsed.password)
                 THEN [config EXCEPT !.host = parsed.hostname,
                                     !.auth_type = "basic",
                                     !.username = parsed.username,
                                     !.password = parsed.password]
                 ELSE [config EXCEPT !.host = parsed.hostname]
  /\ pc' = "cfg_assign"
  /\ UNCHANGED <<mainVars, raised, args, parsed, http_auth, skewVars>>

(* Config.__init__ after _parse_url: "self.auth_type = args.auth_type"    *)
(* through "self.password = args.password".                               *)
AssignArgs ==
  /\ pc = "cfg_assign"
  /\ config' = [config EXCEPT !.auth_type = args.auth_type,
                              !.region = args.region,
                              !.access_key = args.access_key,
                              !.secret_key = args.secret_key,
                              !.username = args.username,
                              !.password = args.password]
  /\ pc' = "cfg_validate"
  /\ UNCHANGED <<mainVars, raised, args, parsed, http_auth, skewVars>>

(* Config.validate raises ValueError. *)
Invalid(c) ==
  \/ ~Truthy(c.host)
  \/ /\ c.auth_type = "aws"
     /\ ~(Truthy(c.region) /\ Truthy(c.access_key) /\ Truthy(c.secret_key))
  \/ /\ c.auth_type = "basic"
     /\ ~(Truthy(c.username) /\ Truthy(c.password))

(* Config.validate: its ValueError reaches the handler of main. *)
Validate ==
  /\ pc = "cfg_validate"
  /\ IF Invalid(config)
       THEN pc' = "failed" /\ raised' = "from_args"
       ELSE pc' = "cfg_ok" /\ raised' = raised
  /\ UNCHANGED <<mainVars, cfgVars, skewVars>>

(* The http_auth that create_opensearch_client hands to OpenSearch. *)
HttpAuth(c) ==
  IF c.auth_type = "aws"
    THEN Some(<<"AWS4Auth", c.access_key, c.secret_key, c.region, "es">>)
  ELSE IF c.auth_type = "basic"
    THEN Some(<<Val(c.username), Val(c.password)>>)
  ELSE None

CreateOpensearchClient ==
  /\ pc = "cfg_ok"
  /\ http_auth' = HttpAuth(config)
  /\ pc' = "cfg_client"
  /\ UNCHANGED <<mainVars, raised, args, parsed, config, skewVars>>

ConfigNext ==
  \/ ParseUrl
  \/ AssignArgs
  \/ Validate
  \/ CreateOpensearchClient

ConfigSpec == ConfigInit /\ [][ConfigNext]_vars

(* ---- check_skew.py: the shard-distribution analyzer ---- *)

(* Lines of a shard listing, each as the list line.split() returns:       *)
(* index shard prirep state [docs store ip node].                         *)
SampleLines ==
  { <<"logs", "0", "p", "STARTED", "10", "1kb", "ip1", "n1">>,
    <<"logs", "1", "p", "STARTED", "10", "1kb", "ip2", "n2">>,
    <<"logs", "0", "r", "STARTED", "10", "1kb", "ip1", "n1">>,
    <<".kibana", "0", "p", "STARTED", "10", "1kb", "ip1", "n1">>,
    <<"logs", "2", "r", "UNASSIGNED", "NODE_LEFT", "node", "left">>,
    <<"logs", "3", "r", "INITIALIZING", "ip2", "n2">>,
    <<>> }

Listings == UNION {[1..n -> SampleLines] : n \in 0..MaxLines}

(* First character of the index names of SampleLines. *)
FirstChar == ("logs" :> "l") @@ (".kibana" :> ".")

(* index_name.startswith('.') *)
is_internal_index(index_name) == FirstChar[index_name] = "."

(* The lag monitor is not running. *)
MainIdle ==
  /\ idx = 1
  /\ iterations = 1
  /\ successful_iterations = 0
  /\ iteration = 0
  /\ now = 0
  /\ start_time = 0
  /\ is_primary = TRUE
  /\ res = FALSE
  /\ outcome = "none"
  /\ primary_time = None
  /\ replica_time = None
  /\ result = None
  /\ timeouts = [i \in IndexSet |-> ZeroCounters]
  /\ results = [i \in IndexSet |-> <<>>]
  /\ csv = [i \in IndexSet |-> <<>>]
  /\ seen = [i \in IndexSet |-> ZeroCounters]
  /\ wrote = FALSE
  /\ pFound = FALSE
  /\ rFound = FALSE
  /\ count = None
  /\ queries = 0
  /\ sleeps = 0
  /\ reached = {}
  /\ skipped = {}
  /\ report_calls = 0
  /\ raised = "none"
  /\ warned = FALSE
  /\ report = None
  /\ min_size_bytes = 0
  /\ current_size = 0
  /\ final_size = None

(* main has read the listing from stdin. *)
SkewInit ==
  /\ pc = "skew_parse"
  /\ lines \in Listings
  /\ processed_data = <<>>
  /\ unassigned_shards = <<>>
  /\ node_summary = <<>>
  /\ index_summary = <<>>
  /\ index_distribution = <<>>
  /\ MainIdle
  /\ NoConfig

(* shard_info of a line with at least 4 fields *)
ShardInfo(parts) ==
  [index_name |-> parts[1], shard_id |-> parts[2],
   prirep |-> IF parts[3] = "p" THEN "primary" ELSE "replica",
   state |-> parts[4]]

(* shard_info with 'node_ip' = parts[-2] and 'node_name' = parts[-1] *)
WithNode(parts) ==
  ShardInfo(parts) @@ [node_ip |-> parts[Len(parts) - 1],
                       node_name |-> parts[Len(parts)]]

(* The line goes to unassigned_shards. *)
Unassigned(parts) == Len(parts) >= 4 /\ parts[4] = "UNASSIGNED"

(* The line goes to processed_data. *)
ProcessedIgnoresState(parts) == Len(parts) >= 7
Processed(parts) ==
  Len(parts) >= 4 /\ parts[4] # "UNASSIGNED" /\ Len(parts) >= 7

ParseShardData ==
  /\ pc = "skew_parse"
  /\ processed_data' =
       LET kept == SelectSeq(lines, Processed)
       IN  [k \in 1..Len(kept) |-> WithNode(kept[k])]
  /\ unassigned_shards' =
       LET rest == SelectSeq(lines, Unassigned)
       IN  [k \in 1..Len(rest) |-> ShardInfo(rest[k])]
  /\ pc' = "skew_analyze"
  /\ UNCHANGED <<mainVars, raised, cfgVars, lines, node_summary,
                 index_summary, index_distribution>>

(* d[key] += 1 on a defaultdict(int) *)
Inc(d, key) ==
  IF key \in DOMAIN d THEN [d EXCEPT ![key] = @ + 1] ELSE d @@ (key :> 1)

(* One round of the loop of analyze_shards on node_summary.  node_name is *)
(* a field of a split line and so never empty.                            *)
NodeStep(ns, shard) ==
  LET node_name == shard.node_name
      ns1 == IF node_name \notin DOMAIN ns
               THEN ns @@ (node_name :> [primary |-> 0, replica |-> 0,
                                         total |-> 0,
                                         node_ip |-> shard.node_ip])
               ELSE ns
  IN  [ns1 EXCEPT ![node_name] =
         [@ EXCEPT ![shard.prirep] = @ + 1, !.total = @ + 1]]

(* The default entry of index_summary. *)
NewIndexStats ==
  [primaries |-> <<>>, replicas |-> <<>>, total_primaries |-> 0,
   total_replicas |-> 0, nodes |-> {}]

(* One round of the loop of analyze_shards on index_summary. *)
IndexStep(ixs, shard) ==
  LET index_name == shard.index_name
      node_name == shard.node_name
      ixs1 == IF index_name \in DOMAIN ixs THEN ixs
              ELSE ixs @@ (index_name :> NewIndexStats)
  IN  [ixs1 EXCEPT ![index_name] =
         IF shard.prirep = "primary"
           THEN [@ EXCEPT !.primaries = Inc(@, node_name),
                          !.total_primaries = @ + 1,
                          !.nodes = @ \cup {node_name}]
           ELSE [@ EXCEPT !.replicas = Inc(@, node_name),
                          !.total_replicas = @ + 1,
                          !.nodes = @ \cup {node_name}]]

(* The loop of analyze_shards over the shards in order. *)
RECURSIVE NodeSummary(_, _)
NodeSummary(ns, shards) ==
  IF Len(shards) = 0 THEN ns
  ELSE NodeSummary(NodeStep(ns, Head(shards)), Tail(shards))

RECURSIVE IndexSummary(_, _)
IndexSummary(ixs, shards) ==
  IF Len(shards) = 0 THEN ixs
  ELSE IndexSummary(IndexStep(ixs, Head(shards)), Tail(shards))

AnalyzeShards ==
  /\ pc = "skew_analyze"
  /\ node_summary' = NodeSummary(<<>>, processed_data)
  /\ index_summary' = IndexSummary(<<>>, processed_data)
  /\ pc' = "skew_dist"
  /\ UNCHANGED <<mainVars, raised, cfgVars, lines, processed_data,
                 unassigned_shards, index_distribution>>

(* list(d.values()) as far as min and max read it *)
Counts(d) == {d[key] : key \in DOMAIN d}
SetMin(S) == CHOOSE m \in S : \A x \in S : m <= x
SetMax(S) == CHOOSE m \in S : \A x \in S : x <= m

(* "if counts: ... if max - min > 1" *)
Imbalanced(d) ==
  Counts(d) # {} /\ SetMax(Counts(d)) - SetMin(Counts(d)) > 1

(* index_distribution[index_name] *)
Distribution(stats) ==
  [primary_distribution |-> stats.primaries,
   replica_distribution |-> stats.replicas,
   total_primaries |-> stats.total_primaries,
   total_replicas |-> stats.total_replicas,
   node_count |-> Cardinality(stats.nodes),
   is_balanced |-> ~(Imbalanced(stats.primaries) \/ Imbalanced(stats.replicas)),
   imbalance_details |->
     (IF Imbalanced(stats.primaries) THEN <<"Primary shard imbalance">> ELSE <<>>)
     \o (IF Imbalanced(stats.replicas) THEN <<"Replica shard imbalance">> ELSE <<>>)]

AnalyzeIndexDistribution ==
  /\ pc = "skew_dist"
  /\ index_distribution' =
       [i \in {j \in DOMAIN index_summary : ~is_internal_index(j)} |->
          Distribution(index_summary[i])]
  /\ pc' = "skew_done"
  /\ UNCHANGED <<mainVars, raised, cfgVars, lines, processed_data,
                 unassigned_shards, node_summary, index_summary>>

SkewNext ==
  \/ ParseShardData
  \/ AnalyzeShards
  \/ AnalyzeIndexDistribution

SkewSpec == SkewInit /\ [][SkewNext]_vars

(* ---- properties ---- *)

Preferences == {"primary", "replica"}

(* A wait_for_document call with preference p is in progress. *)
InWait(p) == pc \in {"wfd_loop", "wfd_get"} /\ is_primary = p

(* run_single_test has just returned a result dict to test_index. *)
Produced == pc = "ti_result" /\ result # None

(* Calls of run_single_test made so far by the current test_index. *)
Calls == iteration + (IF pc \in {"rst_write", "wfd_loop", "wfd_get", "ti_result"}
                        THEN 1 ELSE 0)

(* C1: test_index never makes more than 3*N calls of run_single_test, and *)
(* when it ends without any success it has made exactly 3*N attempts.     *)
C1_AttemptCap ==
  /\ Calls <= 3 * iterations
  /\ (pc = "ti_end" /\ successful_iterations = 0) => iteration = 3 * iterations

(* C2: every wait_for_document call eventually returns, whatever the      *)
(* store answers.                                                         *)
C2_WaitReturns == \A p \in BOOLEAN : InWait(p) ~> ~InWait(p)

(* C3: a poll is not kept alive indefinitely by reads that fail with an   *)
(* error that is not a timeout: such a poll eventually ends.              *)
C3_ErrorsNotAbsorbed ==
  []<>~(pc \in {"wfd_loop", "wfd_get"} /\ outcome = "error")

(* C4: a read is in flight only in a trial whose write succeeded, and a   *)
(* replica read only after a primary read of the same trial returned      *)
(* found.                                                                 *)
C4_ReplicaAfterPrimary ==
  pc = "wfd_get" => (wrote /\ (~is_primary => pFound))
C4_Witness == pc = "wfd_get" /\ ~is_primary /\ wrote /\ pFound

(* C5: the results list and the results file of an index grow only by one *)
(* record of the current trial, and only when its write succeeded and     *)
(* both its primary read and its replica read returned found.             *)
C5_OnlyVisibleTrialsRecorded ==
  [][\A i \in IndexSet :
       (results'[i] # results[i] \/ csv'[i] # csv[i]) =>
         /\ i = index
         /\ wrote /\ pFound /\ rFound
         /\ results'[i] = Append(results[i], Val(result))
         /\ csv'[i] \in {csv[i], SaveResult(csv[i], result)}]_vars
C5_Witness ==
  /\ results[index] = <<[indexing_time_ms |-> 0, replication_time_ms |-> 1000,
                         timeouts |-> index]>>
  /\ Len(csv[index]) = 2
  /\ successful_iterations = 1
  /\ iteration = 2

(* C6: a produced result has indexing_time_ms = the primary poll's        *)
(* elapsed time and replication_time_ms = replica elapsed - primary       *)
(* elapsed, the replica elapsed being the time since the replica poll     *)
(* began.                                                                 *)
C6_LatencyFields ==
  Produced =>
    /\ Val(result).indexing_time_ms = Val(primary_time)
    /\ Val(result).replication_time_ms = Val(replica_time) - Val(primary_time)
    /\ Val(replica_time) = (now - start_time) * 1000
C6_Witness == Produced /\ Val(result).replication_time_ms < 0

(* C7: when a result is produced its timeouts field reads the number of   *)
(* timeouts raised so far for the index, per preference.                  *)
C7_TimeoutsAtProduction ==
  Produced => TimeoutsOf(Val(result)) = seen[index]
C7_Witness ==
  /\ Produced
  /\ iteration = 0
  /\ TimeoutsOf(Val(result)) = [primary |-> 2, replica |-> 0]

(* C8: the timeouts value of a result already in results[index] never     *)
(* changes afterwards.                                                    *)
C8_SnapshotImmutable ==
  [][\A i \in IndexSet : \A j \in 1..Len(results[i]) :
       (TimeoutsOf(results[i][j]))' = TimeoutsOf(results[i][j])]_vars

(* C9: no step lowers a timeout counter of any index.                     *)
C9_CountersMonotone ==
  [][\A i \in IndexSet : \A n \in Preferences :
       timeouts'[i][n] >= timeouts[i][n]]_vars
C9_Witness ==
  /\ pc = "done"
  /\ timeouts[Indexes[1]].primary > 0
  /\ timeouts[Indexes[1]].replica > 0

(* C10: the counters change only when a read times out, and then only the *)
(* counter of the index under test and the read's preference, by 1.       *)
C10_TimeoutFrame ==
  [][IF seen' # seen
       THEN timeouts' =
              [timeouts EXCEPT
                 ![index][IF is_primary THEN "primary" ELSE "replica"] = @ + 1]
       ELSE timeouts' = timeouts]_vars
C10_Witness ==
  /\ idx = 2
  /\ pc = "wfd_loop"
  /\ outcome = "timeout"
  /\ ~is_primary
  /\ timeouts[Indexes[2]] = [primary |-> 0, replica |-> 1]
  /\ timeouts[Indexes[1]] = [primary |-> 1, replica |-> 0]

(* C11: a trial whose write raises is discarded at once, with no read and  *)
(* no change of the counters, the results or the results file; test_index *)
(* then counts the attempt and returns to its loop test, or leaves by the *)
(* attempt allowance.                                                     *)
C11_WriteFailureDiscards ==
  [][/\ (pc = "rst_write" /\ ~wrote') =>
          /\ pc' = "ti_result"
          /\ result' = None
          /\ UNCHANGED <<timeouts, results, csv, iteration>>
     /\ (pc = "ti_result" /\ ~wrote) =>
          /\ iteration' = iteration + 1
          /\ pc' \in {"ti_loop", "ti_end"}
          /\ UNCHANGED <<timeouts, results, csv, successful_iterations>>]_vars
C11_Witness ==
  /\ pc = "rst_write"
  /\ iteration = 1
  /\ successful_iterations = 0
  /\ results[index] = <<>>
  /\ timeouts[index] = ZeroCounters

(* C12: the wait returns success at the first count query that reaches    *)
(* the threshold; every earlier query, whether it returned a lower count  *)
(* or raised, is followed by exactly one sleep and then the next query.   *)
C12_ThresholdWait ==
  [][/\ (pc = "wft_check" /\ Val(count) >= doc_threshold) =>
          (pc' = "ti_loop" /\ sleeps = queries - 1)
     /\ (pc = "wft_check" /\ Val(count) < doc_threshold) => pc' = "wft_sleep"
     /\ (pc = "rt_wait" /\ pc' # "wft_check") => pc' = "wft_sleep"
     /\ (pc = "rt_wait" /\ pc' # pc) => (queries' = queries + 1 /\ sleeps = queries)
     /\ (pc = "wft_sleep") =>
          (pc' = "rt_wait" /\ sleeps' = sleeps + 1 /\ queries' = queries)]_vars
C12_Witness ==
  /\ pc = "wft_check"
  /\ count = Some(9)
  /\ doc_threshold = 9
  /\ queries = 3
  /\ sleeps = 2

(* C13: wait_for_threshold returns only True and only on a count that     *)
(* reaches the threshold, so no index is ever skipped and test_index is   *)
(* entered for every index whose wait returns.                            *)
C13_WaitNeverFails ==
  [][/\ skipped' = {}
     /\ (pc = "wft_check" /\ pc' # "wft_sleep") =>
          /\ Val(count) >= doc_threshold
          /\ pc' = "ti_loop"
          /\ reached' = reached \cup {index}]_vars
C13_Witness ==
  /\ pc = "done"
  /\ reached = IndexSet
  /\ skipped = {}

(* Indexes whose position in config.indexes is below k. *)
Before(k) == {Indexes[j] : j \in 1..(k - 1)}

(* C14: the indexes are handled one at a time in input order: idx only    *)
(* moves to the next position, and only when test_index has returned; a   *)
(* trial runs only for an index whose wait returned success, after the    *)
(* waits of all earlier indexes; generate_report is called once, after    *)
(* the last index.                                                        *)
C14_SequentialOrder ==
  [][/\ idx' # idx => (idx' = idx + 1 /\ pc = "ti_end" /\ pc' = "rt_wait")
     /\ pc' \in {"ti_loop", "rst_write", "wfd_loop", "wfd_get", "ti_result"} =>
          (Indexes[idx'] \in reached' /\ Before(idx') \subseteq reached')
     /\ reached' \subseteq Before(idx' + 1)
     /\ report_calls' # report_calls =>
          (report_calls = 0 /\ pc = "ti_end" /\ idx = Len(Indexes))
     /\ pc' = "done" => report_calls' = 1]_vars
C14_Witness ==
  /\ pc = "done"
  /\ idx = Len(Indexes)
  /\ report_calls = 1
  /\ \A i \in IndexSet : Len(results[i]) = iterations

(* The results of index i whose save_result call has completed. *)
Saved(i) ==
  IF raised = "save_result" /\ i = index
    THEN SubSeq(results[i], 1, Len(results[i]) - 1)
    ELSE results[i]

(* C15: the results file of every index is absent while nothing was      *)
(* saved, and otherwise is the header row followed by one row per saved   *)
(* result, in the order of saving; saving None leaves the file as it is.  *)
C15_FileLayout ==
  \A i \in IndexSet :
    /\ Len(csv[i]) = (IF Saved(i) = <<>> THEN 0 ELSE Len(Saved(i)) + 1)
    /\ csv[i] # <<>> => csv[i][1] = "header"
    /\ \A j \in 1..Len(Saved(i)) : csv[i][j + 1] = CsvRow(Saved(i)[j])
    /\ SaveResult(csv[i], None) = csv[i]
C15_Witness ==
  /\ Len(csv[index]) = 3
  /\ csv[index][1] = "header"
  /\ csv[index][2] # csv[index][3]

(* C16: when generate_report is called with an empty result list for some *)
(* index it still completes and returns a report.                         *)
C16_EmptyIndexReported ==
  (report_calls > 0 /\ \E i \in IndexSet : results[i] = <<>>) =>
    (pc = "done" /\ report # None)

(* C17: a save_result call that raises does not end the run.              *)
C17_SaveFailureSurvived == pc = "failed" => raised # "save_result"

(* C18: a test_index that discarded no trial leaves exactly `iterations`  *)
(* results, the report counts every result as a test and as a successful  *)
(* test, and a latency column whose values are all v has p50 = p90 = p99  *)
(* = v (in hundredths).                                                   *)
C18_ReportCounts ==
  /\ (pc = "ti_end" /\ iteration = successful_iterations) =>
       Len(results[index]) = iterations
  /\ pc = "done" =>
       \A i \in IndexSet :
         LET e == Val(report)[i]
         IN  /\ e.total_tests = Len(results[i])
             /\ e.successful_tests = e.total_tests
             /\ \A f \in {"indexing_time_ms", "replication_time_ms"} :
                  LET v == results[i][1][f]
                  IN  (\A j \in 1..Len(results[i]) : results[i][j][f] = v) =>
                        e[f] = [p50 |-> v * 100, p90 |-> v * 100, p99 |-> v * 100]
C18_Witness ==
  /\ pc = "done"
  /\ iterations = 2
  /\ \A i \in IndexSet :
       /\ Val(report)[i].total_tests = 2
       /\ Val(report)[i].successful_tests = 2
       /\ Val(report)[i].indexing_time_ms = [p50 |-> 0, p90 |-> 0, p99 |-> 0]

(* C19: the percentiles of the report are the linear-interpolated         *)
(* quantiles of the sorted column: for the latencies 10, 20, 30, 40, 50   *)
(* recorded in any order p50 = 30, p90 = 46 and p99 = 49.6 (values in     *)
(* hundredths), and any list gives the percentiles of its sorted list.    *)
C19_InterpolatedQuantiles ==
  pc = "done" =>
    LET e  == Val(report)[Indexes[1]]
        xs == Column(results[Indexes[1]], "indexing_time_ms")
        ys == Column(results[Indexes[1]], "replication_time_ms")
        five == [p50 |-> 3000, p90 |-> 4600, p99 |-> 4960]
    IN  /\ (Len(xs) = 5 /\ {xs[j] : j \in 1..5} = SampleValues) =>
             (e.indexing_time_ms = five /\ e.replication_time_ms = five)
        /\ e.indexing_time_ms = Percentiles(SortSeq(xs, LAMBDA a, b : a < b))
        /\ e.replication_time_ms = Percentiles(SortSeq(ys, LAMBDA a, b : a < b))
        /\ \A p \in {"p50", "p90", "p99"} :
             /\ e.indexing_time_ms[p] >= 100 * 10
             /\ e.indexing_time_ms[p] <= 100 * 50
C19_Witness ==
  /\ pc = "done"
  /\ Column(results[Indexes[1]], "indexing_time_ms") = <<50, 10, 40, 20, 30>>
  /\ Val(report)[Indexes[1]].indexing_time_ms.p90 = 4600
  /\ Val(report)[Indexes[1]].replication_time_ms.p99 = 4960

(* C20: the serialized size of a generated document is at least the       *)
(* configured minimum size.                                               *)
C20_MinimumSize ==
  final_size # None => Val(final_size) >= min_size_bytes

(* The thread of control is inside test_index. *)
InTestIndex ==
  pc \in {"ti_loop", "rst_write", "wfd_loop", "wfd_get", "ti_result", "ti_end"}

(* C21: the warning "Stopping after ... attempts with only ..." is logged  *)
(* only by a test_index that ends with fewer successes than requested.    *)
C21_WarningOnlyOnShortfall ==
  warned => successful_iterations < iterations

C24_UrlCredentials ==
  pc \in {"cfg_ok", "cfg_client"} =>
    /\ ( /\ Truthy(parsed.username) /\ Truthy(parsed.password)
         /\ args.auth_type = "none"
         /\ args.username = None /\ args.password = None ) =>
         /\ config.auth_type = "basic"
         /\ config.username = parsed.username
         /\ config.password = parsed.password
         /\ pc = "cfg_client" =>
              http_auth = Some(<<Val(parsed.username), Val(parsed.password)>>)
    /\ args.username # None => config.username = args.username
    /\ args.password # None => config.password = args.password

(* Lines that name a node and whose state is not UNASSIGNED: the assigned *)
(* shards of the listing.                                                 *)
Kept == {k \in 1..Len(lines) : Len(lines[k]) >= 7 /\ lines[k][4] # "UNASSIGNED"}
NodeAt(k) == lines[k][Len(lines[k])]

(* Number of assigned shards of index i on node n that are primaries      *)
(* (t = TRUE) or replicas (t = FALSE), and the non-zero such numbers.     *)
Tally(n, i, t) ==
  Cardinality({k \in Kept : NodeAt(k) = n /\ lines[k][1] = i
                            /\ (lines[k][3] = "p") = t})
Spread(i, t) == {Tally(NodeAt(k), i, t) : k \in Kept} \ {0}
Skewed(S) == \E a, b \in S : a - b > 1

RECURSIVE TotalOver(_, _)
TotalOver(ns, S) ==
  IF S = {} THEN 0
  ELSE LET n == CHOOSE m \in S : TRUE
       IN  ns[n].total + TotalOver(ns, S \ {n})

TypeOK ==
  /\ pc \in {"rt_wait", "wft_check", "wft_sleep", "ti_loop", "ti_result",
             "ti_end", "rst_write", "wfd_loop", "wfd_get", "done", "failed",
             "gen_doc", "doc_done", "cfg_parse", "cfg_assign", "cfg_validate",
             "cfg_ok", "cfg_client", "skew_parse", "skew_analyze",
             "skew_dist", "skew_done"}
  /\ idx \in 1..Len(Indexes)
  /\ now \in 0..MaxClock
====
